---- MODULE Spec2Model ----
(***************************************************************************)
(* The multi-tenant OAuth credential store of Post-Bot:                    *)
(*   services/encryption.py   encrypt_value, decrypt_value, is_encrypted   *)
(*   services/token_store.py  the accounts table and its accessors         *)
(*   services/auth_service.py code exchange and token refresh              *)
(*   services/token_validator.py validate_linkedin_token                   *)
(*   backend/app.py           the handlers that call them                  *)
(*                                                                         *)
(* Strings that may carry the "ENC:" tag are records                       *)
(*   [kind, enc, txt]                                                      *)
(* kind = "none" is Python's None (SQL NULL); kind = "str" is a string     *)
(* whose innermost plaintext is txt and which is wrapped in Len(enc)       *)
(* layers of "ENC:" + Fernet ciphertext, enc[1] being the key of the       *)
(* outermost layer.  A value starts with "ENC:" iff enc is not empty.      *)
(* Fernet's random IV and timestamp are abstracted away: a ciphertext is   *)
(* identified by its key and its plaintext.                                *)
(***************************************************************************)
EXTENDS Integers, Sequences, FiniteSets, TLC

VARIABLES
    ENCRYPTION_KEY,   \* encryption.py: the process-wide key, "" when unset
    accounts,         \* the accounts table: its rows in rowid order
    now,              \* int(time.time())
    issued,           \* the provider: how many token responses it has given
    proc,             \* the requests in flight, one record per call site
    call              \* the last direct call of an encryption.py function

vars == <<ENCRYPTION_KEY, accounts, now, issued, proc, call>>

--------------------------------------------------------------------------
(* Bounds and the small input sets                                       *)

\* the clock runs from 0 to MaxNow in steps of TickStep seconds
MaxNow == 30

TickStep == 30

\* the provider answers at most MaxIssued exchange and refresh requests
MaxIssued == 2

\* default refresh_buffer of get_access_token_for_urn
refresh_buffer == 60

Tenants == {"A", "B"}

Urns == {"urn:1", "urn:2"}

Procs == {"p1", "p2"}

\* p1 may make any call; p2 is a second request for the same tenant and the
\* same provider identity, the one that can race with p1 on a row
Targets(p) == IF p = "p1" THEN [tenants |-> Tenants, urns |-> Urns, all |-> TRUE]
              ELSE [tenants |-> {"A"}, urns |-> {"urn:1"}, all |-> FALSE]

\* Python None / SQL NULL for plain text columns and for integer columns
NoneStr == "None"

NoneInt == -1

--------------------------------------------------------------------------
(* Values                                                                *)

None == [kind |-> "none", enc |-> <<>>, txt |-> <<>>]

Str(t) == [kind |-> "str", enc |-> <<>>, txt |-> t]

\* Python truthiness of an optional string: None and "" are falsy
Truthy(v) == v.kind = "str" /\ (v.enc # <<>> \/ v.txt # <<>>)

\* "ENC:" + fernet.encrypt(v) under key k
Cipher(k, v) == [kind |-> "str", enc |-> <<k>> \o v.enc, txt |-> v.txt]

\* The text of a token is a tuple: <<>> is the empty string, and the provider
\* (or GitHub) issues <<kind, tenant, serial>> to the tenant who authorized
AccessTok(t, n) == <<"at", t, n>>

RefreshTok(t, n) == <<"rt", t, n>>

GithubTok(t) == <<"gt", t, 0>>

OwnerOf(txt) == IF txt = <<>> THEN NoneStr ELSE txt[2]

\* the provider's expires_in of a token response; NoneInt when it is absent
ExpiresIn == {90}

--------------------------------------------------------------------------
(* services/encryption.py                                                *)

\* a configured key that Fernet() rejects (not 32 url-safe base64 bytes)
InvalidKey == "not-a-fernet-key"

\* the Fernet instance: its key, or "" for None (no key configured, or
\* Fernet() raised on it)
get_fernet == IF ENCRYPTION_KEY = InvalidKey THEN "" ELSE ENCRYPTION_KEY

encrypt_value(plaintext) ==
    IF ~Truthy(plaintext) THEN Str(<<>>)
    ELSE IF get_fernet = "" THEN plaintext
    ELSE Cipher(get_fernet, plaintext)

\* a decrypt_value that leaves the tag and the ciphertext in place
decrypt_value_keeps_tag(encrypted) ==
    IF ~Truthy(encrypted) THEN Str(<<>>)
    ELSE IF encrypted.enc = <<>> THEN encrypted
    ELSE IF get_fernet = "" THEN Str(<<>>)
    ELSE IF Head(encrypted.enc) = get_fernet THEN encrypted
    ELSE Str(<<>>)

\* a decrypt_value that looks for the key before it looks for the tag
decrypt_value_key_first(encrypted) ==
    IF ~Truthy(encrypted) THEN Str(<<>>)
    ELSE IF get_fernet = "" THEN Str(<<>>)
    ELSE IF encrypted.enc = <<>> THEN encrypted
    ELSE IF Head(encrypted.enc) = get_fernet
         THEN [encrypted EXCEPT !.enc = Tail(encrypted.enc)]
         ELSE Str(<<>>)

\* a decrypt_value that hands the ciphertext back when it cannot decrypt it
decrypt_value_fails_open(encrypted) ==
    IF ~Truthy(encrypted) THEN Str(<<>>)
    ELSE IF encrypted.enc = <<>> THEN encrypted
    ELSE IF get_fernet = "" THEN encrypted
    ELSE IF Head(encrypted.enc) = get_fernet
         THEN [encrypted EXCEPT !.enc = Tail(encrypted.enc)]
         ELSE encrypted

decrypt_value(encrypted) ==
    IF ~Truthy(encrypted) THEN Str(<<>>)
    ELSE IF encrypted.enc = <<>> THEN encrypted
    ELSE IF get_fernet = "" THEN Str(<<>>)
    ELSE IF Head(encrypted.enc) = get_fernet
         THEN [encrypted EXCEPT !.enc = Tail(encrypted.enc)]
         ELSE Str(<<>>)

is_encrypted(value) == Truthy(value) /\ value.enc # <<>>

\* token[:n] and token[-n:] of Python, n of either sign for the first
Prefix(txt, n) ==
    IF n >= 0 THEN SubSeq(txt, 1, IF n < Len(txt) THEN n ELSE Len(txt))
    ELSE SubSeq(txt, 1, IF Len(txt) + n > 0 THEN Len(txt) + n ELSE 0)

Suffix(txt, n) ==
    SubSeq(txt, IF Len(txt) > n THEN Len(txt) - n + 1 ELSE 1, Len(txt))

\* the eight bullets (U+2022, written "*" here) shown for a hidden token
Placeholder == Str([i \in 1..8 |-> "*"])

Ellipsis == <<".", ".", ".">>

mask_token(token, visible_chars) ==
    IF ~Truthy(token) THEN Str(<<>>)
    ELSE IF is_encrypted(token) THEN Placeholder
    ELSE IF Len(token.txt) <= visible_chars * 2 THEN Placeholder
    ELSE Str(Prefix(token.txt, visible_chars) \o Ellipsis \o Suffix(token.txt, 4))

--------------------------------------------------------------------------
(* services/token_store.py                                               *)

Row(urn, at, rt, exp, uid, ghu, ght, sc, flag) ==
    [ user_id             |-> uid,
      linkedin_user_urn   |-> urn,
      access_token        |-> at,
      refresh_token       |-> rt,
      github_username     |-> ghu,
      github_access_token |-> ght,
      expires_at          |-> exp,
      scopes              |-> sc,
      is_encrypted        |-> flag ]

\* an upsert whose DO UPDATE leaves user_id out of its SET list
Upsert_keep_user_id(accts, new) ==
    IF \E i \in DOMAIN accts : accts[i].linkedin_user_urn = new.linkedin_user_urn
    THEN [i \in DOMAIN accts |->
            IF accts[i].linkedin_user_urn = new.linkedin_user_urn
            THEN [new EXCEPT !.user_id = accts[i].user_id] ELSE accts[i]]
    ELSE Append(accts, new)

\* INSERT ... ON CONFLICT(linkedin_user_urn) DO UPDATE SET ...: the row with
\* this urn is replaced column by column, or a new row is appended
Upsert(accts, new) ==
    IF \E i \in DOMAIN accts : accts[i].linkedin_user_urn = new.linkedin_user_urn
    THEN [i \in DOMAIN accts |->
            IF accts[i].linkedin_user_urn = new.linkedin_user_urn
            THEN new ELSE accts[i]]
    ELSE Append(accts, new)

\* save_token that forgets to encrypt the access token
save_token_plain(accts, urn, at, rt, exp, uid, ghu, ght, sc) ==
    Upsert(accts, Row(urn, at, IF Truthy(rt) THEN encrypt_value(rt) ELSE None, exp,
                      uid, ghu, IF Truthy(ght) THEN encrypt_value(ght) ELSE None,
                      sc, 1))

\* a save_token that stores its row with the legacy flag
save_token_unflagged(accts, urn, at, rt, exp, uid, ghu, ght, sc) ==
    LET encrypted_access  == IF Truthy(at) THEN encrypt_value(at) ELSE None
        encrypted_refresh == IF Truthy(rt) THEN encrypt_value(rt) ELSE None
        encrypted_github  == IF Truthy(ght) THEN encrypt_value(ght) ELSE None
    IN  Upsert(accts, Row(urn, encrypted_access, encrypted_refresh, exp,
                          uid, ghu, encrypted_github, sc, 0))

save_token(accts, urn, at, rt, exp, uid, ghu, ght, sc) ==
    LET encrypted_access  == IF Truthy(at) THEN encrypt_value(at) ELSE None
        encrypted_refresh == IF Truthy(rt) THEN encrypt_value(rt) ELSE None
        encrypted_github  == IF Truthy(ght) THEN encrypt_value(ght) ELSE None
    IN  Upsert(accts, Row(urn, encrypted_access, encrypted_refresh, exp,
                          uid, ghu, encrypted_github, sc, 1))

\* a _migrate_if_plaintext that hands back what it has just stored
MigrateReturn_stored(row) ==
    [row EXCEPT !.access_token = encrypt_value(row.access_token),
                !.refresh_token = encrypt_value(row.refresh_token),
                !.github_access_token = encrypt_value(row.github_access_token)]

\* the row _migrate_if_plaintext hands back to its caller
MigrateReturn(row) ==
    IF row.is_encrypted = 1
    THEN [row EXCEPT !.access_token = decrypt_value(row.access_token),
                     !.refresh_token = decrypt_value(row.refresh_token),
                     !.github_access_token = decrypt_value(row.github_access_token)]
    ELSE row

\* whether _migrate_if_plaintext issues its UPDATE for this row
MigrateWrites(row) == row.is_encrypted # 1 /\ ~is_encrypted(row.access_token)

\* a migration that encrypts the access token and forgets the refresh token
MigrateUpdate_access_only(accts, row) ==
    [i \in DOMAIN accts |->
        IF /\ accts[i].linkedin_user_urn = row.linkedin_user_urn
           /\ accts[i].is_encrypted \in {0, NoneInt}
        THEN [accts[i] EXCEPT !.access_token = encrypt_value(row.access_token),
                              !.is_encrypted = 1]
        ELSE accts[i]]

\* UPDATE accounts SET access_token=?, refresh_token=?, github_access_token=?,
\* is_encrypted=1 WHERE linkedin_user_urn=? AND (is_encrypted=0 OR is_encrypted IS NULL)
MigrateUpdate(accts, row) ==
    LET enc_access  == encrypt_value(row.access_token)
        enc_refresh == IF Truthy(row.refresh_token)
                       THEN encrypt_value(row.refresh_token) ELSE None
        enc_github  == IF Truthy(row.github_access_token)
                       THEN encrypt_value(row.github_access_token) ELSE None
    IN  [i \in DOMAIN accts |->
            IF /\ accts[i].linkedin_user_urn = row.linkedin_user_urn
               /\ accts[i].is_encrypted \in {0, NoneInt}
            THEN [accts[i] EXCEPT !.access_token = enc_access,
                                  !.refresh_token = enc_refresh,
                                  !.github_access_token = enc_github,
                                  !.is_encrypted = 1]
            ELSE accts[i]]

\* a save_github_token that inserts a row when the tenant has none
save_github_token_upsert(accts, uid, ghu, ght) ==
    LET encrypted_github == IF Truthy(ght) THEN encrypt_value(ght) ELSE None
    IN  IF \A i \in DOMAIN accts : accts[i].user_id # uid
        THEN Append(accts, Row(NoneStr, None, None, NoneInt, uid, ghu,
                               encrypted_github, NoneStr, 0))
        ELSE [i \in DOMAIN accts |->
                IF accts[i].user_id = uid
                THEN [accts[i] EXCEPT !.github_username = ghu,
                                      !.github_access_token = encrypted_github]
                ELSE accts[i]]

\* UPDATE accounts SET github_username=?, github_access_token=? WHERE user_id=?
save_github_token(accts, uid, ghu, ght) ==
    LET encrypted_github == IF Truthy(ght) THEN encrypt_value(ght) ELSE None
    IN  IF \A i \in DOMAIN accts : accts[i].user_id # uid
        THEN accts
        ELSE [i \in DOMAIN accts |->
                IF accts[i].user_id = uid
                THEN [accts[i] EXCEPT !.github_username = ghu,
                                      !.github_access_token = encrypted_github]
                ELSE accts[i]]

--------------------------------------------------------------------------
(* Requests in flight.  A request that reads the table holds the rows it *)
(* has fetched (rows) until each has gone through _migrate_if_plaintext; *)
(* every SQL statement is one atomic step.                               *)

IdleProc ==
    [ pc        |-> "idle",
      op        |-> "none",
      arg       |-> NoneStr,
      rows      |-> <<>>,     \* fetched, not yet through _migrate_if_plaintext
      ret       |-> <<>>,     \* the rows handed back to the caller
      status    |-> "",
      token     |-> None,     \* the return value of get_access_token_for_urn
      refreshed |-> <<>>,     \* the response of refresh_access_token
      printed   |-> "" ]

\* no encryption.py function has been called directly; otherwise the
\* function, its arguments, what it returned and, for a decrypt_value of
\* what encrypt_value returned, the plaintext that was encrypted
NoCall == [fn |-> "none", arg |-> None, visible_chars |-> NoneInt,
           out |-> None, plain |-> <<>>]

Readers == {"get_token_by_user_id", "get_token_by_urn", "get_all_tokens"}

\* what get_access_token_for_urn raises: RuntimeError with these messages, and
\* the requests.HTTPError of resp.raise_for_status() in refresh_access_token
NoTokenFound == "RuntimeError: No token found for this linkedin_user_urn"

NoRefreshToken == "RuntimeError: No refresh token available to refresh access token"

HTTPError == "requests.HTTPError"

\* handing a finished request's result to its caller is local to the request
\* and takes no time: nothing else is interleaved with it
Quiet == \A q \in Procs : proc[q].pc # "done"

\* refresh_access_token: the responses the provider may give to a refresh
\* request at time t, its n-th answer; none when what is sent is no refresh
\* token of its
RefreshResponses(rt, t, n) ==
    IF rt.enc # <<>> \/ rt.txt = <<>> \/ Head(rt.txt) # "rt"
    THEN {}
    ELSE { [ access_token  |-> Str(AccessTok(OwnerOf(rt.txt), n)),
             refresh_token |-> Str(r),
             expires_at    |-> IF e = NoneInt THEN NoneInt ELSE t + e ] :
           r \in {RefreshTok(OwnerOf(rt.txt), n)},
           e \in ExpiresIn }

\* a refresh condition that leaves the boundary out
NeedsRefresh_strict(expires_at, t, buffer) ==
    expires_at # NoneInt /\ expires_at # 0 /\ expires_at - t < buffer

\* whether get_access_token_for_urn takes the refresh branch
NeedsRefresh(expires_at, t, buffer) ==
    expires_at # NoneInt /\ expires_at # 0 /\ expires_at - t <= buffer

\* a get_access_token_for_urn that asks the provider although the record
\* has no refresh token
DecideRefresh_always_asks(pr, t, n) ==
    LET token_row == pr.ret[1]
        base      == [pr EXCEPT !.ret = <<>>]
    IN  IF NeedsRefresh(token_row.expires_at, t, refresh_buffer)
        THEN {[base EXCEPT !.pc = "done", !.status = HTTPError]}
        ELSE {[base EXCEPT !.pc = "done", !.status = "ok",
                           !.token = token_row.access_token]}

\* a get_access_token_for_urn that falls back to the stored token when the
\* provider refuses the refresh
DecideRefresh_falls_back(pr, t, n) ==
    LET token_row == pr.ret[1]
        base      == [pr EXCEPT !.ret = <<>>]
    IN  IF NeedsRefresh(token_row.expires_at, t, refresh_buffer)
        THEN IF ~Truthy(token_row.refresh_token)
             THEN {[base EXCEPT !.pc = "done", !.status = NoRefreshToken]}
             ELSE {[base EXCEPT !.pc = "done", !.status = "ok",
                                !.token = token_row.access_token]}
                  \cup {[base EXCEPT !.pc = "save", !.refreshed = <<r>>] :
                          r \in RefreshResponses(token_row.refresh_token, t, n)}
        ELSE {[base EXCEPT !.pc = "done", !.status = "ok",
                           !.token = token_row.access_token]}

\* get_access_token_for_urn after get_token_by_urn has returned token_row
DecideRefresh(pr, t, n) ==
    LET token_row == pr.ret[1]
        base      == [pr EXCEPT !.ret = <<>>]
    IN  IF NeedsRefresh(token_row.expires_at, t, refresh_buffer)
        THEN IF ~Truthy(token_row.refresh_token)
             THEN {[base EXCEPT !.pc = "done", !.status = NoRefreshToken]}
             ELSE {[base EXCEPT !.pc = "done", !.status = HTTPError]}
                  \cup {[base EXCEPT !.pc = "save", !.refreshed = <<r>>] :
                          r \in RefreshResponses(token_row.refresh_token, t, n)}
        ELSE {[base EXCEPT !.pc = "done", !.status = "ok",
                           !.token = token_row.access_token]}

\* _migrate_if_plaintext on the fetched rows that need no UPDATE: it only
\* decrypts (or hands the row back), which touches nothing shared, so these
\* calls are taken in the same step as the statement before them
RECURSIVE Local(_)
Local(pr) ==
    IF pr.rows = <<>> \/ MigrateWrites(Head(pr.rows)) THEN pr
    ELSE Local([pr EXCEPT !.rows = Tail(@),
                          !.ret = Append(@, MigrateReturn(Head(pr.rows)))])

\* a validator that does not look at expires_at
Validate_ignores_expiry(pr, t) ==
    LET token_data == pr.ret[1]
        base       == [pr EXCEPT !.pc = "done", !.ret = <<>>]
    IN  IF ~Truthy(token_data.access_token)
        THEN [base EXCEPT !.status = "missing_token"]
        ELSE [base EXCEPT !.status = "valid", !.token = token_data.access_token]

\* validate_linkedin_token after get_token_by_user_id has returned
\* token_data: the error_code of the TokenValidationResult, or "valid" and
\* the token
Validate(pr, t) ==
    LET token_data == pr.ret[1]
        base       == [pr EXCEPT !.pc = "done", !.ret = <<>>]
    IN  IF ~Truthy(token_data.access_token)
        THEN [base EXCEPT !.status = "missing_token"]
        ELSE IF token_data.expires_at \notin {NoneInt, 0} /\ t >= token_data.expires_at
        THEN [base EXCEPT !.status = "token_expired"]
        ELSE [base EXCEPT !.status = "valid", !.token = token_data.access_token]

\* what a request does once its rows have come back from _migrate_if_plaintext
Continue(pr, t, n) ==
    IF pr.rows # <<>> THEN {pr}
    ELSE IF pr.op \in Readers THEN {[pr EXCEPT !.pc = "done", !.status = "ok"]}
    ELSE IF pr.op = "validate_linkedin_token" THEN {Validate(pr, t)}
    ELSE DecideRefresh(pr, t, n)

\* the request's next state, and the provider's, after a step that left it as pr
Proceed(p, pr) ==
    \E q \in Continue(Local(pr), now, issued + 1) :
        /\ q.pc = "save" => issued < MaxIssued
        /\ proc' = [proc EXCEPT ![p] = q]
        /\ issued' = IF q.pc = "save" THEN issued + 1 ELSE issued

\* a get_access_token_for_urn that hands back None for an unknown urn
Fetched_none_for_unknown(p, op, arg, fetched) ==
    IF fetched = <<>> /\ op # "get_all_tokens"
    THEN /\ proc' = [proc EXCEPT ![p] =
                       [IdleProc EXCEPT !.pc = "done", !.op = op, !.arg = arg,
                                        !.status = "ok"]]
         /\ issued' = issued
    ELSE Proceed(p, [IdleProc EXCEPT !.pc = "rows", !.op = op, !.arg = arg,
                                     !.rows = fetched])

\* the call after its SELECT: no row is None for the accessors of the store
\* and RuntimeError for get_access_token_for_urn
Fetched(p, op, arg, fetched) ==
    IF fetched = <<>> /\ op # "get_all_tokens"
    THEN /\ proc' = [proc EXCEPT ![p] =
                       [IdleProc EXCEPT !.pc = "done", !.op = op, !.arg = arg,
                                        !.status = IF op \in Readers
                                                   THEN "not_found"
                                                   ELSE IF op = "validate_linkedin_token"
                                                   THEN "not_connected"
                                                   ELSE NoTokenFound]]
         /\ issued' = issued
    ELSE Proceed(p, [IdleProc EXCEPT !.pc = "rows", !.op = op, !.arg = arg,
                                     !.rows = fetched])

\* SELECT ... FROM accounts WHERE user_id=? ; fetchone() (no ORDER BY: any
\* matching row)
get_token_by_user_id(p, user_id) ==
    /\ Quiet
    /\ proc[p].pc = "idle"
    /\ user_id \in Targets(p).tenants
    /\ LET m == {i \in DOMAIN accounts : accounts[i].user_id = user_id}
       IN  \/ m = {} /\ Fetched(p, "get_token_by_user_id", user_id, <<>>)
           \/ \E i \in m : Fetched(p, "get_token_by_user_id", user_id, <<accounts[i]>>)
    /\ UNCHANGED <<call, ENCRYPTION_KEY, accounts, now>>

\* token_validator.validate_linkedin_token(user_id): get_token_by_user_id,
\* then the checks on what it returned
validate_linkedin_token(p, user_id) ==
    /\ Quiet
    /\ proc[p].pc = "idle"
    /\ Targets(p).all
    /\ user_id \in Targets(p).tenants
    /\ LET m == {i \in DOMAIN accounts : accounts[i].user_id = user_id}
       IN  \/ m = {} /\ Fetched(p, "validate_linkedin_token", user_id, <<>>)
           \/ \E i \in m : Fetched(p, "validate_linkedin_token", user_id, <<accounts[i]>>)
    /\ UNCHANGED <<call, ENCRYPTION_KEY, accounts, now>>

\* SELECT ... FROM accounts WHERE linkedin_user_urn=? ; fetchone()
SelectByUrn(p, op, urn) ==
    /\ Quiet
    /\ proc[p].pc = "idle"
    /\ urn \in Targets(p).urns
    /\ LET m == {i \in DOMAIN accounts : accounts[i].linkedin_user_urn = urn}
       IN  \/ m = {} /\ Fetched(p, op, urn, <<>>)
           \/ \E i \in m : Fetched(p, op, urn, <<accounts[i]>>)
    /\ UNCHANGED <<call, ENCRYPTION_KEY, accounts, now>>

get_token_by_urn(p, urn) ==
    Targets(p).all /\ SelectByUrn(p, "get_token_by_urn", urn)

get_access_token_for_urn(p, urn) == SelectByUrn(p, "get_access_token_for_urn", urn)

\* SELECT ... FROM accounts ; fetchall()
get_all_tokens(p) ==
    /\ Quiet
    /\ proc[p].pc = "idle"
    /\ Targets(p).all
    /\ Fetched(p, "get_all_tokens", NoneStr, accounts)
    /\ UNCHANGED <<call, ENCRYPTION_KEY, accounts, now>>

\* the dict get_connection_status builds from the row it fetched
StatusOfRow(row) ==
    [ linkedin_connected |-> row.linkedin_user_urn \notin {NoneStr, ""},
      linkedin_urn       |-> IF row.linkedin_user_urn = NoneStr THEN ""
                             ELSE row.linkedin_user_urn,
      github_connected   |-> row.github_username \notin {NoneStr, ""},
      github_username    |-> IF row.github_username = NoneStr THEN ""
                             ELSE row.github_username,
      token_expires_at   |-> row.expires_at,
      scopes             |-> IF row.scopes = NoneStr THEN "" ELSE row.scopes ]

NotConnected == [linkedin_connected |-> FALSE, github_connected |-> FALSE]

\* a connection status that derives "connected" from the stored token
ConnectionStatuses_by_token(accts, user_id) ==
    IF \A i \in DOMAIN accts : accts[i].user_id # user_id THEN {NotConnected}
    ELSE { [StatusOfRow(accts[i]) EXCEPT
              !.linkedin_connected = Truthy(accts[i].access_token)] :
           i \in {j \in DOMAIN accts : accts[j].user_id = user_id} }

\* get_connection_status(user_id): SELECT linkedin_user_urn, github_username,
\* expires_at, scopes FROM accounts WHERE user_id=? ; fetchone()
ConnectionStatuses(accts, user_id) ==
    IF \A i \in DOMAIN accts : accts[i].user_id # user_id THEN {NotConnected}
    ELSE { StatusOfRow(accts[i]) :
           i \in {j \in DOMAIN accts : accts[j].user_id = user_id} }

get_connection_status(p, user_id) ==
    /\ Quiet
    /\ proc[p].pc = "idle"
    /\ Targets(p).all
    /\ user_id \in Targets(p).tenants
    /\ \E r \in ConnectionStatuses(accounts, user_id) :
          proc' = [proc EXCEPT ![p] =
                     [IdleProc EXCEPT !.pc = "done", !.op = "get_connection_status",
                                      !.arg = user_id, !.ret = <<r>>,
                                      !.status = "ok"]]
    /\ UNCHANGED <<call, ENCRYPTION_KEY, accounts, now, issued>>

\* delete_token_by_user_id(user_id): DELETE FROM accounts WHERE user_id=?
delete_token_by_user_id(accts, user_id) ==
    SelectSeq(accts, LAMBDA row : row.user_id # user_id)

\* app.py disconnect_linkedin: deleted = delete_token_by_user_id(user_id)
disconnect_linkedin(p, user_id) ==
    /\ Quiet
    /\ proc[p].pc = "idle"
    /\ Targets(p).all
    /\ user_id \in Targets(p).tenants
    /\ accounts' = delete_token_by_user_id(accounts, user_id)
    /\ proc' = [proc EXCEPT ![p] =
                 [IdleProc EXCEPT !.pc = "done", !.op = "disconnect_linkedin",
                                  !.arg = user_id,
                                  !.ret = <<\E i \in DOMAIN accounts :
                                              accounts[i].user_id = user_id>>,
                                  !.status = "ok"]]
    /\ UNCHANGED <<call, ENCRYPTION_KEY, now, issued>>

\* a migration whose UPDATE stays in the table when the statement raised
MigrateEffect_no_rollback(accts, row, raised) ==
    IF MigrateWrites(row) THEN MigrateUpdate(accts, row) ELSE accts

\* the table after _migrate_if_plaintext(row): the conditional UPDATE is
\* committed, or it raised and was rolled back
MigrateEffect(accts, row, raised) ==
    IF MigrateWrites(row) /\ ~raised THEN MigrateUpdate(accts, row) ELSE accts

\* _migrate_if_plaintext on the next fetched row, and what follows it
migrate_if_plaintext(p, raised) ==
    /\ Quiet
    /\ proc[p].pc = "rows"
    /\ LET row == Head(proc[p].rows)
       IN  /\ accounts' = MigrateEffect(accounts, row, raised)
           /\ Proceed(p, [proc[p] EXCEPT
                            !.rows = Tail(@),
                            !.ret = Append(@, MigrateReturn(row)),
                            !.printed = IF raised THEN "Token migration failed" ELSE @])
    /\ UNCHANGED <<call, ENCRYPTION_KEY, now>>

\* get_access_token_for_urn: save_token(urn, access, refresh, expires_at)
RefreshSave(p) ==
    /\ Quiet
    /\ proc[p].pc = "save"
    /\ LET r == proc[p].refreshed[1]
       IN  /\ accounts' = save_token(accounts, proc[p].arg, r.access_token,
                                     r.refresh_token, r.expires_at,
                                     NoneStr, NoneStr, None, NoneStr)
           /\ proc' = [proc EXCEPT ![p] = [@ EXCEPT !.pc = "done", !.status = "ok",
                                                    !.token = r.access_token,
                                                    !.refreshed = <<>>]]
    /\ UNCHANGED <<call, ENCRYPTION_KEY, now, issued>>

\* the caller takes the result
Return(p) ==
    /\ proc[p].pc = "done"
    /\ proc' = [proc EXCEPT ![p] = IdleProc]
    /\ UNCHANGED <<call, ENCRYPTION_KEY, accounts, now, issued>>

\* exchange_code_for_token / exchange_code_for_token_with_user, once the
\* provider has answered both requests: save_token(urn, access_token,
\* refresh_token=None, expires_at=expires_at, user_id=user_id)
ExchangeCode(user_id, urn, expires_in) ==
    /\ Quiet
    /\ issued < MaxIssued
    /\ issued' = issued + 1
    /\ accounts' = save_token(accounts, urn, Str(AccessTok(user_id, issued + 1)), None,
                              IF expires_in = NoneInt THEN NoneInt ELSE now + expires_in,
                              user_id, NoneStr, None, NoneStr)
    /\ UNCHANGED <<call, ENCRYPTION_KEY, now, proc>>

\* where an exchange can fail, and what it raises there
ExchangeFailures == {"token", "userinfo", "sub"}

NoLinkedInId == "RuntimeError: Failed to fetch LinkedIn user id"

\* an exchange that saves the token before it has resolved the identity
ExchangeCodeFails_saves_first(p, user_id, failure) ==
    /\ Quiet
    /\ proc[p].pc = "idle"
    /\ Targets(p).all
    /\ proc' = [proc EXCEPT ![p] =
                 [IdleProc EXCEPT !.pc = "done", !.op = "exchange_code_for_token",
                                  !.arg = user_id,
                                  !.status = IF failure = "sub" THEN NoLinkedInId
                                             ELSE HTTPError]]
    /\ accounts' = IF failure = "token" THEN accounts
                   ELSE save_token(accounts, NoneStr, Str(AccessTok(user_id, issued)),
                                   None, NoneInt, user_id, NoneStr, None, NoneStr)
    /\ UNCHANGED <<call, ENCRYPTION_KEY, now, issued>>

\* exchange_code_for_token / exchange_code_for_token_with_user when the token
\* endpoint answers with an error, the userinfo endpoint does, or userinfo
\* has no 'sub': the call raises before save_token
ExchangeCodeFails(p, user_id, failure) ==
    /\ Quiet
    /\ proc[p].pc = "idle"
    /\ Targets(p).all
    /\ proc' = [proc EXCEPT ![p] =
                 [IdleProc EXCEPT !.pc = "done", !.op = "exchange_code_for_token",
                                  !.arg = user_id,
                                  !.status = IF failure = "sub" THEN NoLinkedInId
                                             ELSE HTTPError]]
    /\ UNCHANGED <<call, ENCRYPTION_KEY, accounts, now, issued>>

\* app.py: the GitHub OAuth callback and the settings form
SaveGithubToken(user_id, github_username, github_access_token) ==
    /\ Quiet
    /\ accounts' = save_github_token(accounts, user_id, github_username,
                                     github_access_token)
    /\ UNCHANGED <<call, ENCRYPTION_KEY, now, issued, proc>>

Tick ==
    /\ Quiet
    /\ now + TickStep <= MaxNow
    /\ now' = now + TickStep
    /\ UNCHANGED <<call, ENCRYPTION_KEY, accounts, issued, proc>>

--------------------------------------------------------------------------
(* The table a process may find at start: empty, or rows written before  *)
(* tokens were encrypted (is_encrypted 0 or NULL, tokens in plaintext)   *)

LegacyRow(urn, t, rt, exp, flag) ==
    Row(urn, Str(AccessTok(t, 0)), rt, exp, t, NoneStr, None, NoneStr, flag)

LegacyRows(urn, t) ==
    { LegacyRow(urn, t, rt, exp, 0) :
        rt \in {None, Str(RefreshTok(t, 0))}, exp \in {NoneInt, 30} }

InitTables ==
    {<<>>, <<LegacyRow("urn:1", "A", None, NoneInt, NoneInt)>>}
      \cup {<<r>> : r \in LegacyRows("urn:1", "A")}
      \cup {<<LegacyRow("urn:1", "A", Str(RefreshTok("A", 0)), 30, 0),
              LegacyRow("urn:2", "B", None, NoneInt, 0)>>}

Init ==
    /\ ENCRYPTION_KEY \in {"", "K1"}
    /\ accounts \in InitTables
    /\ now = 0
    /\ issued = 0
    /\ proc = [p \in Procs |-> IdleProc]
    /\ call = NoCall

Next ==
    \/ \E p \in Procs, t \in Tenants : get_token_by_user_id(p, t)
    \/ \E p \in Procs, u \in Urns : get_token_by_urn(p, u)
    \/ \E p \in Procs, u \in Urns : get_access_token_for_urn(p, u)
    \/ \E p \in Procs : get_all_tokens(p)
    \/ \E p \in Procs, raised \in BOOLEAN : migrate_if_plaintext(p, raised)
    \/ \E p \in Procs : RefreshSave(p)
    \/ \E p \in Procs : Return(p)
    \/ \E t \in Tenants, u \in Urns, e \in ExpiresIn : ExchangeCode(t, u, e)
    \/ \E t \in Tenants : SaveGithubToken(t, "gh" \o t, Str(GithubTok(t)))
    \/ \E p \in Procs, t \in Tenants : validate_linkedin_token(p, t)
    \/ \E p \in Procs, t \in Tenants : get_connection_status(p, t)
    \/ \E p \in Procs, t \in Tenants : disconnect_linkedin(p, t)
    \/ \E p \in Procs, t \in Tenants, f \in ExchangeFailures : ExchangeCodeFails(p, t, f)
    \/ Tick

Spec == Init /\ [][Next]_vars

--------------------------------------------------------------------------
(* services/encryption.py called directly: the functions applied to      *)
(* strings of every shape, under every configuration of the key          *)

\* the longest token, and the largest visible_chars (8 is the default)
MaxTokenLen == 17

MaxVisible == 8

\* short tokens are all the strings over ShortChars up to MaxShortLen
MaxShortLen == 3

ShortChars == {"a", "b"}

Letters == << "a", "b", "c", "d", "e", "f", "g", "h", "i", "j", "k", "l", "m",
              "n", "o", "p", "q", "r", "s", "t", "u", "v", "w", "x", "y", "z" >>

LongText(n) == [i \in 1..n |-> Letters[((i - 1) % 26) + 1]]

Texts ==
    UNION {[1..n -> ShortChars] : n \in 0..MaxShortLen}
      \cup {LongText(n) : n \in (MaxShortLen + 1)..MaxTokenLen}

\* the payload of a tagged value that is no Fernet token of any key
\* (corrupted, truncated or tampered with)
Tampered == "tampered"

EncKeys == {"", InvalidKey, "K1", "K2"}

TaggedValues ==
    {Cipher(k, Str(t)) : k \in {"K1", "K2", Tampered},
                         t \in {<<>>, LongText(5), LongText(MaxTokenLen)}}
      \cup {Cipher(k, Cipher("K1", Str(LongText(5)))) : k \in {"K1", "K2"}}

EncInputs == {None} \cup {Str(t) : t \in Texts} \cup TaggedValues

VisibleChars == 0..MaxVisible

EncFrame == UNCHANGED <<ENCRYPTION_KEY, accounts, now, issued, proc>>

EncryptValue(plaintext) ==
    /\ call' = [NoCall EXCEPT !.fn = "encrypt_value", !.arg = plaintext,
                              !.out = encrypt_value(plaintext)]
    /\ EncFrame

DecryptValue(encrypted) ==
    /\ call' = [NoCall EXCEPT !.fn = "decrypt_value", !.arg = encrypted,
                              !.out = decrypt_value(encrypted)]
    /\ EncFrame

\* decrypt_value(encrypt_value(plaintext)): plain remembers the plaintext
DecryptEncrypted ==
    /\ call.fn = "encrypt_value"
    /\ call' = [NoCall EXCEPT !.fn = "decrypt_value", !.arg = call.out,
                              !.out = decrypt_value(call.out),
                              !.plain = <<call.arg>>]
    /\ EncFrame

MaskToken(token, visible_chars) ==
    /\ call' = [NoCall EXCEPT !.fn = "mask_token", !.arg = token,
                              !.visible_chars = visible_chars,
                              !.out = mask_token(token, visible_chars)]
    /\ EncFrame

EncInit ==
    /\ ENCRYPTION_KEY \in EncKeys
    /\ accounts = <<>>
    /\ now = 0
    /\ issued = 0
    /\ proc = [p \in Procs |-> IdleProc]
    /\ call = NoCall

EncNext ==
    \/ \E v \in EncInputs : EncryptValue(v)
    \/ \E v \in EncInputs : DecryptValue(v)
    \/ DecryptEncrypted
    \/ \E v \in EncInputs, n \in VisibleChars : MaskToken(v, n)

EncSpec == EncInit /\ [][EncNext]_vars

--------------------------------------------------------------------------
(* Properties                                                            *)

HasRow(accts, urn) == \E i \in DOMAIN accts : accts[i].linkedin_user_urn = urn

RowOf(accts, urn) ==
    accts[CHOOSE i \in DOMAIN accts : accts[i].linkedin_user_urn = urn]

\* a non-empty string without the "ENC:" tag
Plaintext(v) == Truthy(v) /\ v.enc = <<>>

\* v is the single-layer encryption of plain under the configured key
EncryptionOf(v, plain) == get_fernet # "" /\ v = Cipher(get_fernet, plain)

\* an optional token is stored encrypted: NULL for an absent one
StoredFormOf(v, plain) ==
    IF Truthy(plain) THEN EncryptionOf(v, plain) ELSE ~Truthy(v)

\* a legacy row as the migration expects it: flag 0 or NULL, the access token
\* in plaintext, the other tokens in plaintext or absent
LegacyPlain(row) ==
    /\ row.is_encrypted # 1
    /\ Plaintext(row.access_token)
    /\ ~is_encrypted(row.refresh_token)
    /\ ~is_encrypted(row.github_access_token)

SavedRowTagged(accts, urn) ==
    /\ HasRow(accts, urn)
    /\ RowOf(accts, urn).is_encrypted = 1
    /\ is_encrypted(RowOf(accts, urn).access_token)

C2_FlaggedRowsNotPlaintext ==
    \A i \in DOMAIN accounts :
        accounts[i].is_encrypted = 1 => ~Plaintext(accounts[i].access_token)

\* the step in which request p, a get_token_by_user_id, runs the migration
\* UPDATE for the legacy row it fetched, and the UPDATE does not raise
MigrationStep(p) ==
    /\ proc[p].op = "get_token_by_user_id"
    /\ proc[p].pc = "rows"
    /\ LegacyPlain(Head(proc[p].rows))
    /\ migrate_if_plaintext(p, FALSE)

\* the row is stored encrypted: flag 1, each token the single-layer
\* encryption of the legacy row's plaintext (NULL where it had none)
MigratedFrom(after, legacy) ==
    /\ after.is_encrypted = 1
    /\ StoredFormOf(after.access_token, legacy.access_token)
    /\ StoredFormOf(after.refresh_token, legacy.refresh_token)
    /\ StoredFormOf(after.github_access_token, legacy.github_access_token)
    /\ after.user_id = legacy.user_id

\* the call hands back the legacy row's plaintext and reports no error
ReturnsPlaintextOf(pr, legacy) ==
    /\ pr.pc = "done"
    /\ pr.status = "ok"
    /\ pr.ret = <<legacy>>

\* nothing has written the fetched row since request p selected it
Undisturbed(p) ==
    LET row == Head(proc[p].rows)
    IN  HasRow(accounts, row.linkedin_user_urn)
        /\ RowOf(accounts, row.linkedin_user_urn) = row

SequentialMigrationOk(p) ==
    LET row == Head(proc[p].rows)
    IN  /\ ReturnsPlaintextOf(proc'[p], row)
        /\ MigratedFrom(RowOf(accounts', row.linkedin_user_urn), row)

\* C3 as stated: given a row with is_encrypted = 0 and plaintext tokens, one
\* call to get_by_user_id returns exactly the row's plaintext tokens and
\* leaves the row with is_encrypted = 1 and the encrypted forms of those
\* plaintexts.  (Fails without a key: the values stored are the plaintexts.)
C3_MigrationEncrypts ==
    [][ \A p \in Procs :
          MigrationStep(p) /\ Undisturbed(p) => SequentialMigrationOk(p) ]_vars

\* C3 amended: the same, with a usable encryption key configured (the
\* UPDATE not raising: C10 is the case in which it does).
C3_MigrationEncryptsWithKey ==
    [][ \A p \in Procs :
          get_fernet # "" /\ MigrationStep(p) /\ Undisturbed(p)
            => SequentialMigrationOk(p) ]_vars

\* a get_token_by_user_id has just returned a legacy row with a refresh token
\* and the table holds that row encrypted
C3_Witness ==
    \E p \in Procs :
        /\ get_fernet # ""
        /\ proc[p].op = "get_token_by_user_id" /\ proc[p].pc = "done"
        /\ proc[p].printed = ""
        /\ proc[p].ret # <<>>
        /\ LegacyPlain(proc[p].ret[1])
        /\ Truthy(proc[p].ret[1].refresh_token)
        /\ HasRow(accounts, proc[p].ret[1].linkedin_user_urn)
        /\ MigratedFrom(RowOf(accounts, proc[p].ret[1].linkedin_user_urn),
                        proc[p].ret[1])

\* the fetched legacy row is still as selected, or is as the migration of
\* another reader of the same row has left it
RacedOrFirst(p) ==
    LET row == Head(proc[p].rows)
    IN  /\ HasRow(accounts, row.linkedin_user_urn)
        /\ RowOf(accounts, row.linkedin_user_urn)
             \in {row, MigrateUpdate(<<row>>, row)[1]}

ConcurrentMigrationOk(p) ==
    LET row == Head(proc[p].rows)
    IN  /\ ReturnsPlaintextOf(proc'[p], row)
        /\ proc'[p].printed = ""
        /\ MigratedFrom(RowOf(accounts', row.linkedin_user_urn), row)
        /\ Len(accounts') = Len(accounts)

\* C4 as stated: for every interleaving of two simultaneous first-reads of a
\* legacy row, both readers return the plaintext, the loser's zero-row update
\* is a success, the row ends with is_encrypted = 1 and a single-layer
\* encryption of the original values, and no row is added.  (Fails without
\* a key, as C3.)
C4_ConcurrentMigration ==
    [][ \A p \in Procs :
          MigrationStep(p) /\ RacedOrFirst(p) => ConcurrentMigrationOk(p) ]_vars

\* C4 amended: the same, with a usable encryption key configured.
C4_ConcurrentMigrationWithKey ==
    [][ \A p \in Procs :
          get_fernet # "" /\ MigrationStep(p) /\ RacedOrFirst(p)
            => ConcurrentMigrationOk(p) ]_vars

\* both requests selected the same legacy row before either updated it; the
\* first has migrated it and returned, the second is about to run its UPDATE
C4_Witness ==
    /\ get_fernet # ""
    /\ proc["p1"].op = "get_token_by_user_id" /\ proc["p1"].pc = "done"
    /\ proc["p2"].op = "get_token_by_user_id" /\ proc["p2"].pc = "rows"
    /\ proc["p1"].ret = proc["p2"].rows
    /\ LegacyPlain(Head(proc["p2"].rows))
    /\ RowOf(accounts, Head(proc["p2"].rows).linkedin_user_urn).is_encrypted = 1

\* the tokens of a returned row belong to tenant t (or are absent)
TokensOf(row, t) ==
    /\ OwnerOf(row.access_token.txt) \in {t, NoneStr}
    /\ OwnerOf(row.refresh_token.txt) \in {t, NoneStr}
    /\ OwnerOf(row.github_access_token.txt) \in {t, NoneStr}

\* C5: get_by_user_id(A) returns not_found or a record whose user_id is A,
\* and never a token that was issued to another tenant.
C5_TenantIsolation ==
    \A p \in Procs :
        proc[p].op = "get_token_by_user_id" /\ proc[p].pc = "done" =>
            \/ proc[p].status = "not_found" /\ proc[p].ret = <<>>
            \/ /\ Len(proc[p].ret) = 1
               /\ proc[p].ret[1].user_id = proc[p].arg
               /\ TokensOf(proc[p].ret[1], proc[p].arg)

\* tenant A's read has returned A's record from a table in which B holds the
\* provider identity that A's legacy row was bound to
C5_Witness ==
    \E p \in Procs :
        /\ proc[p].op = "get_token_by_user_id" /\ proc[p].pc = "done"
        /\ proc[p].arg = "A" /\ proc[p].ret # <<>>
        /\ HasRow(accounts, "urn:1") /\ RowOf(accounts, "urn:1").user_id = "B"

\* C6: the accounts table holds at most one row per user_id and at most one
\* row per provider_subject_urn.
C6_OneRowPerTenantAndUrn ==
    \A i, j \in DOMAIN accounts :
        i # j =>
            /\ accounts[i].linkedin_user_urn # accounts[j].linkedin_user_urn
            /\ accounts[i].user_id = NoneStr
                 \/ accounts[i].user_id # accounts[j].user_id

\* C7: no save, migration or save_github_token alters the user_id of an
\* existing row.
C7_UserIdImmutable ==
    [][ \A i \in DOMAIN accounts :
          \A j \in DOMAIN accounts' :
              accounts[i].linkedin_user_urn = accounts'[j].linkedin_user_urn
                => accounts'[j].user_id = accounts[i].user_id ]_vars

\* C8: no record returned by get_by_user_id, get_by_provider_subject or
\* get_all_tokens holds an "ENC:"-prefixed access, refresh or secondary token.
C8_ReturnsOnlyDecrypted ==
    \A p \in Procs :
        proc[p].op \in Readers /\ proc[p].pc = "done" =>
            \A k \in DOMAIN proc[p].ret :
                /\ ~is_encrypted(proc[p].ret[k].access_token)
                /\ ~is_encrypted(proc[p].ret[k].refresh_token)
                /\ ~is_encrypted(proc[p].ret[k].github_access_token)

\* C9: if encryption is unavailable during the migration of a legacy row,
\* the read returns the plaintext and the stored row is left unchanged with
\* is_encrypted = 0.
C9_NoKeyMigrationSkipped ==
    [][ \A p \in Procs :
          get_fernet = "" /\ MigrationStep(p) =>
              /\ ReturnsPlaintextOf(proc'[p], Head(proc[p].rows))
              /\ accounts' = accounts ]_vars

\* the step in which the migration UPDATE of request p raises
FailedMigrationStep(p) ==
    /\ proc[p].op = "get_token_by_user_id"
    /\ proc[p].pc = "rows"
    /\ proc[p].printed = ""
    /\ proc'[p].printed = "Token migration failed"

\* C10: if the migration's conditional update fails at the storage layer,
\* get_by_user_id still returns the legacy row's plaintext values without an
\* error, the update is rolled back, and the row stays at is_encrypted = 0
\* with its original values.
C10_FailedMigrationReturnsPlaintext ==
    [][ \A p \in Procs :
          FailedMigrationStep(p) =>
              /\ ReturnsPlaintextOf(proc'[p], Head(proc[p].rows))
              /\ accounts' = accounts
              /\ Undisturbed(p) =>
                   /\ RowOf(accounts', Head(proc[p].rows).linkedin_user_urn)
                        = Head(proc[p].rows)
                   /\ Head(proc[p].rows).is_encrypted # 1 ]_vars

\* a read whose migration UPDATE raised has returned the legacy row, and the
\* table still holds that row as it was
C10_Witness ==
    \E p \in Procs :
        /\ proc[p].op = "get_token_by_user_id" /\ proc[p].pc = "done"
        /\ proc[p].printed = "Token migration failed"
        /\ proc[p].status = "ok"
        /\ LegacyPlain(proc[p].ret[1])
        /\ RowOf(accounts, proc[p].ret[1].linkedin_user_urn) = proc[p].ret[1]

--------------------------------------------------------------------------
(* get_access_token_for_urn                                              *)

\* the innermost plaintext of a stored value
PlainOf(v) == [v EXCEPT !.enc = <<>>]

\* the step in which request p, a get_access_token_for_urn, has its record
\* and decides whether to refresh
ValidTokenDecides(p) ==
    /\ proc[p].pc \in {"idle", "rows"}
    /\ proc'[p].op = "get_access_token_for_urn"
    /\ proc'[p].pc \in {"done", "save"}
    /\ proc'[p].status # NoTokenFound

\* the stored row that request p decides on
DecidedRow(p) ==
    IF proc[p].pc = "rows" THEN Head(proc[p].rows)
    ELSE RowOf(accounts, proc'[p].arg)

\* expires_at is set and expires_at - now <= refresh_buffer
WithinBuffer(row) ==
    /\ row.expires_at # NoneInt
    /\ row.expires_at # 0
    /\ row.expires_at - now <= refresh_buffer

\* the request took the refresh branch: it has a refresh response to save,
\* or the refresh failed
TookRefreshBranch(pr) ==
    \/ pr.pc = "save" /\ pr.refreshed # <<>>
    \/ pr.pc = "done" /\ pr.status \in {NoRefreshToken, HTTPError}

\* the request returned the stored access token without asking the provider
ReturnedStored(p) ==
    /\ proc'[p].pc = "done"
    /\ proc'[p].status = "ok"
    /\ proc'[p].token = PlainOf(DecidedRow(p).access_token)
    /\ issued' = issued

\* the only write of the step is the migration UPDATE of the legacy row
\* that was read: the columns that are not tokens keep their values, the
\* access token keeps its plaintext, and every other row is untouched
OnlyMigrated(row) ==
    /\ Len(accounts') = Len(accounts)
    /\ \A i \in DOMAIN accounts :
          \/ accounts'[i] = accounts[i]
          \/ /\ accounts[i].linkedin_user_urn = row.linkedin_user_urn
             /\ accounts[i].is_encrypted # 1
             /\ accounts'[i].is_encrypted = 1
             /\ PlainOf(accounts'[i].access_token) = PlainOf(accounts[i].access_token)
             /\ accounts'[i] = [accounts[i] EXCEPT
                                  !.access_token = accounts'[i].access_token,
                                  !.refresh_token = accounts'[i].refresh_token,
                                  !.github_access_token = accounts'[i].github_access_token,
                                  !.is_encrypted = 1]

\* C11 as stated: get_valid_token refreshes if and only if expires_at is set
\* and expires_at - now <= refresh_buffer_seconds (boundary inclusive); when
\* the condition is false it makes no provider call, writes nothing to the
\* store and returns the stored access token.  (Fails: the read inside the
\* call migrates a legacy row, which is a write to the store.)
C11_RefreshIffWithinBuffer ==
    [][ \A p \in Procs :
          ValidTokenDecides(p) =>
              IF WithinBuffer(DecidedRow(p))
              THEN TookRefreshBranch(proc'[p])
              ELSE ReturnedStored(p) /\ accounts' = accounts ]_vars

\* C11 amended: the refresh branch is taken if and only if expires_at is set
\* and expires_at - now <= refresh_buffer_seconds; otherwise the call makes
\* no provider call, performs no save (the only write it can cause is the
\* migration of a legacy row by the read) and returns the stored access
\* token.
C11_RefreshIffWithinBufferNoSave ==
    [][ \A p \in Procs :
          ValidTokenDecides(p) =>
              IF WithinBuffer(DecidedRow(p))
              THEN TookRefreshBranch(proc'[p])
              ELSE ReturnedStored(p) /\ OnlyMigrated(DecidedRow(p)) ]_vars

\* a call has returned the stored token of a record that expires exactly
\* refresh_buffer + TickStep seconds from now: one tick short of the boundary
C11_Witness ==
    \E p \in Procs :
        /\ proc[p].op = "get_access_token_for_urn" /\ proc[p].pc = "done"
        /\ proc[p].status = "ok"
        /\ HasRow(accounts, proc[p].arg)
        /\ RowOf(accounts, proc[p].arg).expires_at - now = refresh_buffer + TickStep
        /\ proc[p].token = PlainOf(RowOf(accounts, proc[p].arg).access_token)

\* C13: get_valid_token for an identity with no stored record fails with the
\* "no token found" error, makes no provider call and leaves the store
\* unchanged.
C13_NoRecordFails ==
    [][ \A p \in Procs, u \in Urns :
          get_access_token_for_urn(p, u) /\ ~HasRow(accounts, u) =>
              /\ proc'[p].pc = "done"
              /\ proc'[p].status = NoTokenFound
              /\ proc'[p].token = None
              /\ issued' = issued
              /\ accounts' = accounts ]_vars

\* a get_access_token_for_urn has failed for an identity that has no row,
\* while another identity has one
C13_Witness ==
    \E p \in Procs :
        /\ proc[p].op = "get_access_token_for_urn" /\ proc[p].pc = "done"
        /\ proc[p].status = NoTokenFound
        /\ ~HasRow(accounts, proc[p].arg)
        /\ accounts # <<>>

\* the deciding step of a call whose record is within the refresh buffer and
\* has no refresh token
NoRefreshPath(p) ==
    /\ ValidTokenDecides(p)
    /\ WithinBuffer(DecidedRow(p))
    /\ ~Truthy(DecidedRow(p).refresh_token)

\* C14 as stated: within the buffer and with no refresh_token the call fails
\* with RefreshUnavailable, a kind distinct from NoCredential and from a
\* provider failure, without calling the provider and without modifying the
\* stored record.  (Fails: the read inside the call migrates a legacy row.)
C14_NoRefreshTokenFails ==
    [][ \A p \in Procs :
          NoRefreshPath(p) =>
              /\ proc'[p].pc = "done"
              /\ proc'[p].status = NoRefreshToken
              /\ proc'[p].status \notin {NoTokenFound, HTTPError, "ok"}
              /\ issued' = issued
              /\ accounts' = accounts ]_vars

\* C14 amended: the same, the stored record being modified by nothing but
\* the migration of a legacy row by the read.
C14_NoRefreshTokenFailsNoSave ==
    [][ \A p \in Procs :
          NoRefreshPath(p) =>
              /\ proc'[p].pc = "done"
              /\ proc'[p].status = NoRefreshToken
              /\ proc'[p].status \notin {NoTokenFound, HTTPError, "ok"}
              /\ issued' = issued
              /\ OnlyMigrated(DecidedRow(p)) ]_vars

\* a call has failed for want of a refresh token on a row that save_token
\* wrote and that has come within the buffer
C14_Witness ==
    \E p \in Procs :
        /\ proc[p].op = "get_access_token_for_urn" /\ proc[p].pc = "done"
        /\ proc[p].status = NoRefreshToken
        /\ HasRow(accounts, proc[p].arg)
        /\ RowOf(accounts, proc[p].arg).is_encrypted = 1
        /\ RowOf(accounts, proc[p].arg).refresh_token = None
        /\ now > 0

\* the rows bound to tenant u
RowsOfTenant(accts, u) == {i \in DOMAIN accts : accts[i].user_id = u}

\* the row of urn holds exactly the triple of the refresh response r
HoldsTriple(accts, urn, r) ==
    /\ HasRow(accts, urn)
    /\ PlainOf(RowOf(accts, urn).access_token) = r.access_token
    /\ PlainOf(RowOf(accts, urn).refresh_token) = r.refresh_token
    /\ RowOf(accts, urn).expires_at = r.expires_at

\* C12: when get_valid_token performs a refresh that succeeds it persists
\* the new access token, refresh token and expiry and returns the new access
\* token; immediately afterwards the tenant's record is the same row (same
\* user_id) and reading it by user_id yields the returned access token.
C12_RefreshPersistsForTenant ==
    [][ \A p \in Procs :
          RefreshSave(p) /\ HasRow(accounts, proc[p].arg) =>
              LET before == RowOf(accounts, proc[p].arg)
                  after  == RowOf(accounts', proc[p].arg)
              IN  /\ proc'[p].token = proc[p].refreshed[1].access_token
                  /\ HoldsTriple(accounts', proc[p].arg, proc[p].refreshed[1])
                  /\ after.user_id = before.user_id
                  /\ before.user_id # NoneStr =>
                       \E i \in RowsOfTenant(accounts', before.user_id) :
                           PlainOf(accounts'[i].access_token) = proc'[p].token ]_vars

\* the save of request p's refresh while another request holds an unsaved
\* refresh response for the same identity: the first save of a refresh race
FirstSaveOfRace(p) ==
    /\ RefreshSave(p)
    /\ HasRow(accounts, proc[p].arg)
    /\ \E q \in Procs \ {p} :
          /\ proc[q].op = "get_access_token_for_urn"
          /\ proc[q].pc = "save"
          /\ proc[q].arg = proc[p].arg

\* C15: for every interleaving of two concurrent get_valid_token calls on
\* the same near-expiry record that both refresh, exactly one row exists for
\* the tenant afterwards and it holds the complete triple of the refresh
\* saved last.  Stated of the first of the two saves: once it has run, the
\* tenant has exactly one row, holding that save's triple (the second save
\* writes the same columns, so what the first has removed stays removed).
C15_RefreshRaceLastWriteWins ==
    [][ \A p \in Procs :
          FirstSaveOfRace(p) =>
              LET before == RowOf(accounts, proc[p].arg)
              IN  /\ HoldsTriple(accounts', proc[p].arg, proc[p].refreshed[1])
                  /\ Cardinality({i \in DOMAIN accounts' :
                        accounts'[i].linkedin_user_urn = proc[p].arg}) = 1
                  /\ before.user_id # NoneStr =>
                       Cardinality(RowsOfTenant(accounts', before.user_id)) = 1 ]_vars

\* the part of C15 that does hold: the row of the identity is unique and
\* carries one refresh's whole triple
C15_TripleNeverMixed ==
    [][ \A p \in Procs :
          RefreshSave(p) =>
              /\ HoldsTriple(accounts', proc[p].arg, proc[p].refreshed[1])
              /\ Cardinality({i \in DOMAIN accounts' :
                    accounts'[i].linkedin_user_urn = proc[p].arg}) = 1 ]_vars

\* both requests hold a refresh response for the same identity, unsaved
C15_RaceReached ==
    /\ proc["p1"].pc = "save" /\ proc["p2"].pc = "save"
    /\ proc["p1"].arg = proc["p2"].arg
    /\ proc["p1"].refreshed # proc["p2"].refreshed

--------------------------------------------------------------------------
(* get_connection_status, disconnect, failed exchanges, the validator    *)

\* values a token column may hold: NULL, and a tagged ciphertext
TokenValues == {None, Cipher("K1", Str(AccessTok("B", 1)))}

\* the tables that differ from accts in nothing but the values of
\* access_token, refresh_token and github_access_token
TokenAlternatives(accts) ==
    { [i \in DOMAIN accts |->
          [accts[i] EXCEPT !.access_token = f[i][1],
                           !.refresh_token = f[i][2],
                           !.github_access_token = f[i][3]]] :
      f \in [DOMAIN accts -> TokenValues \X TokenValues \X TokenValues] }

StatusKeys ==
    {"linkedin_connected", "linkedin_urn", "github_connected",
     "github_username", "token_expires_at", "scopes"}

\* C16: connection_status(user_id) never returns a token: its result has no
\* token field and is the same for any two stores that differ only in the
\* values of access_token, refresh_token or the secondary token.
C16_StatusIndependentOfTokens ==
    [][ \A p \in Procs, u \in Tenants :
          get_connection_status(p, u) =>
              /\ DOMAIN proc'[p].ret[1] \subseteq StatusKeys
              /\ \A alt \in TokenAlternatives(accounts) :
                    ConnectionStatuses(alt, u) = ConnectionStatuses(accounts, u) ]_vars

\* a status has been returned for a tenant whose row holds an encrypted
\* access token and an encrypted GitHub token
C16_Witness ==
    \E p \in Procs :
        /\ proc[p].op = "get_connection_status" /\ proc[p].pc = "done"
        /\ proc[p].ret[1].linkedin_connected
        /\ proc[p].ret[1].github_connected
        /\ \E i \in RowsOfTenant(accounts, proc[p].arg) :
              /\ is_encrypted(accounts[i].access_token)
              /\ is_encrypted(accounts[i].github_access_token)

\* a new authorization of tenant u
Authorizes(u) == \E urn \in Urns, e \in ExpiresIn : ExchangeCode(u, urn, e)

\* C17: delete_by_user_id(u) hard-deletes tenant u's row and returns true
\* iff such a row existed; afterwards get_by_user_id(u) returns not_found and
\* connection_status(u) reports not connected until a new authorization, and
\* the rows of other tenants are unchanged.
C17_DeleteDisconnects ==
    [][ \A u \in Tenants :
          /\ \A p \in Procs :
                disconnect_linkedin(p, u) =>
                    /\ RowsOfTenant(accounts', u) = {}
                    /\ proc'[p].ret = <<RowsOfTenant(accounts, u) # {}>>
                    /\ accounts' = SelectSeq(accounts, LAMBDA row : row.user_id # u)
          /\ RowsOfTenant(accounts, u) = {} /\ ~Authorizes(u)
                => RowsOfTenant(accounts', u) = {}
          /\ \A p \in Procs :
                RowsOfTenant(accounts, u) = {} =>
                    /\ get_token_by_user_id(p, u) =>
                          proc'[p].pc = "done" /\ proc'[p].status = "not_found"
                             /\ proc'[p].ret = <<>>
                    /\ get_connection_status(p, u) =>
                          proc'[p].ret = <<NotConnected>> ]_vars

\* a disconnect has deleted tenant A's row and left tenant B's
C17_Witness ==
    /\ proc["p1"].op = "disconnect_linkedin" /\ proc["p1"].pc = "done"
    /\ proc["p1"].arg = "A"
    /\ proc["p1"].ret = <<TRUE>>
    /\ RowsOfTenant(accounts, "A") = {}
    /\ RowsOfTenant(accounts, "B") # {}

\* C18: if the token-endpoint request fails, or identity resolution fails
\* (error response or missing subject identifier), exchange_code aborts with
\* an error and never calls save: the accounts table is unchanged.
C18_FailedExchangeSavesNothing ==
    [][ \A p \in Procs, u \in Tenants, f \in ExchangeFailures :
          ExchangeCodeFails(p, u, f) =>
              /\ accounts' = accounts
              /\ proc'[p].pc = "done"
              /\ proc'[p].status \in {HTTPError, NoLinkedInId}
              /\ proc'[p].token = None ]_vars

\* an exchange has failed for want of a subject identifier, with rows in
\* the table
C18_Witness ==
    \E p \in Procs :
        /\ proc[p].op = "exchange_code_for_token" /\ proc[p].pc = "done"
        /\ proc[p].status = NoLinkedInId
        /\ accounts # <<>>

\* C19: once a tenant's record has been created, get_by_user_id(u) keeps
\* returning a record until delete_by_user_id(u) is called: no read,
\* migration, token expiry, refresh attempt or save_github_token removes the
\* record or makes it unreachable by user_id.
C19_RecordPersists ==
    [][ \A u \in Tenants :
          /\ RowsOfTenant(accounts, u) # {}
          /\ ~ \E p \in Procs : disconnect_linkedin(p, u)
          /\ ~ \E t \in Tenants : Authorizes(t)
          => RowsOfTenant(accounts', u) # {} ]_vars

\* the step in which request p, a validate_linkedin_token, has its record
\* and builds its result
ValidatorDecides(p) ==
    /\ proc[p].pc \in {"idle", "rows"}
    /\ proc'[p].op = "validate_linkedin_token"
    /\ proc'[p].pc = "done"
    /\ proc'[p].status # "not_connected"

\* the rows the validator may be deciding on
ValidatorRows(p) ==
    IF proc[p].pc = "rows" THEN {Head(proc[p].rows)}
    ELSE {accounts[i] : i \in RowsOfTenant(accounts, proc'[p].arg)}

\* C20: a token request made through the Token Validator goes through
\* get_valid_token: for a tenant whose stored token is within the refresh
\* buffer and who has a refresh token, the validator call results in a
\* refresh and yields the refreshed token.
C20_ValidatorRefreshes ==
    [][ \A p \in Procs :
          /\ ValidatorDecides(p)
          /\ \A row \in ValidatorRows(p) :
                WithinBuffer(row) /\ Truthy(row.refresh_token)
          => /\ issued' = issued + 1
             /\ proc'[p].status = "valid"
             /\ proc'[p].token.txt = AccessTok(proc'[p].arg, issued + 1) ]_vars

--------------------------------------------------------------------------
(* encryption.py: round trip, passthrough, failure, masking              *)

\* C21: with a valid encryption key configured, for every plaintext string
\* p, decrypt_value(encrypt_value(p)) = p.
C21_RoundTrip ==
    /\ call.fn = "decrypt_value"
    /\ call.plain # <<>>
    /\ call.plain[1].kind = "str"
    /\ get_fernet # ""
    => call.out = call.plain[1]

\* a non-empty plaintext went through encrypt_value, came out tagged, and
\* decrypt_value gave it back
C21_Witness ==
    /\ call.fn = "decrypt_value"
    /\ call.plain # <<>>
    /\ get_fernet # ""
    /\ Plaintext(call.plain[1])
    /\ call.arg = Cipher(get_fernet, call.plain[1])
    /\ call.out = call.plain[1]

\* C22: for every string that does not start with the "ENC:" tag,
\* decrypt_value(value) = value, whether or not a key is configured.
C22_LegacyPassthrough ==
    /\ call.fn = "decrypt_value"
    /\ call.arg.kind = "str"
    /\ call.arg.enc = <<>>
    => call.out = call.arg

\* a non-empty untagged string was handed to decrypt_value with no key
\* configured and came back as it was
C22_Witness ==
    /\ call.fn = "decrypt_value"
    /\ ENCRYPTION_KEY = ""
    /\ Plaintext(call.arg)
    /\ call.out = call.arg

\* the authenticated decryption of a tagged value fails: no usable key, a
\* ciphertext of another key, or a payload that is no ciphertext at all
DecryptionFails(v) ==
    is_encrypted(v) /\ (get_fernet = "" \/ Head(v.enc) # get_fernet)

\* C23: for every tag-prefixed value whose authenticated decryption fails,
\* decrypt_value returns the empty string: never the ciphertext, never a
\* part of the plaintext.
C23_DecryptFailsSecure ==
    call.fn = "decrypt_value" /\ DecryptionFails(call.arg)
      => call.out = Str(<<>>)

\* a ciphertext of another key was handed to decrypt_value with a valid key
\* configured, and the empty string came back
C23_Witness ==
    /\ call.fn = "decrypt_value"
    /\ get_fernet # ""
    /\ is_encrypted(call.arg)
    /\ Head(call.arg.enc) \notin {get_fernet, Tampered}
    /\ call.arg.txt # <<>>
    /\ call.out = Str(<<>>)

\* t occurs in s as a contiguous substring
Contains(s, t) ==
    \E i \in 0..(Len(s) - Len(t)) : SubSeq(s, i + 1, i + Len(t)) = t

\* the head and the tail that mask_token shows leave a character hidden
HidesSomething(token, visible_chars) ==
    Len(Prefix(token.txt, visible_chars)) + Len(Suffix(token.txt, 4))
        < Len(token.txt)

\* C24: for every non-empty token and every visible_chars, mask_token gives
\* the placeholder for a tagged value and otherwise the placeholder or a
\* head/tail reveal that hides at least one character; the output never
\* contains the whole token.
C24_MaskNeverReturnsToken ==
    call.fn = "mask_token" /\ Truthy(call.arg) =>
        IF is_encrypted(call.arg) THEN call.out = Placeholder
        ELSE \/ call.out = Placeholder
             \/ /\ HidesSomething(call.arg, call.visible_chars)
                /\ ~Contains(call.out.txt, call.arg.txt)

--------------------------------------------------------------------------
(* Migration against concurrent writes, the flag, the frame of a save    *)

\* the step in which request p runs its migration UPDATE for a legacy row
\* that another call has written since p selected it
MigratesOverNewerWrite(p) ==
    /\ proc[p].pc = "rows"
    /\ LegacyPlain(Head(proc[p].rows))
    /\ HasRow(accounts, Head(proc[p].rows).linkedin_user_urn)
    /\ RowOf(accounts, Head(proc[p].rows).linkedin_user_urn) # Head(proc[p].rows)
    /\ migrate_if_plaintext(p, FALSE)

\* C25: if another call writes a legacy row between a reader's select and
\* its conditional migration update, the update does not overwrite the newer
\* values: the row stays as the concurrent write left it.
C25_MigrationKeepsNewerWrite ==
    [][ \A p \in Procs :
          MigratesOverNewerWrite(p) =>
              LET urn == Head(proc[p].rows).linkedin_user_urn
              IN  RowOf(accounts', urn) = RowOf(accounts, urn) ]_vars

TokenFields == {"access_token", "refresh_token", "github_access_token"}

\* C26: in every reachable state no stored token field is encrypted more
\* than once: decrypting a stored tag-prefixed value once yields the untagged
\* token.
C26_NoDoubleEncryption ==
    \A i \in DOMAIN accounts :
        \A f \in TokenFields : Len(accounts[i][f].enc) <= 1

\* C27: once a row has is_encrypted = 1 it has it in every later state of
\* that row, whatever save, migration, refresh or save_github_token follows.
C27_FlagMonotone ==
    [][ \A urn \in Urns :
          /\ HasRow(accounts, urn)
          /\ RowOf(accounts, urn).is_encrypted = 1
          /\ HasRow(accounts', urn)
          => RowOf(accounts', urn).is_encrypted = 1 ]_vars

\* a refresh has been saved over a row that the read before it had migrated,
\* and the row is flagged
C27_Witness ==
    \E p \in Procs :
        /\ proc[p].op = "get_access_token_for_urn" /\ proc[p].pc = "done"
        /\ proc[p].status = "ok"
        /\ proc[p].printed = ""
        /\ proc[p].token.txt # <<>>
        /\ proc[p].token.txt[3] > 0
        /\ HasRow(accounts, proc[p].arg)
        /\ RowOf(accounts, proc[p].arg).is_encrypted = 1
        /\ PlainOf(RowOf(accounts, proc[p].arg).access_token) = proc[p].token

\* the columns a save of LinkedIn tokens is not about
SecondaryFields(row) ==
    <<row.github_username, row.github_access_token, row.scopes>>

\* C28: re-authorization (exchange_code) and token refresh for a tenant
\* leave the row's github_username, github_access_token and scopes unchanged.
C28_SaveKeepsSecondaryFields ==
    [][ \A urn \in Urns :
          /\ HasRow(accounts, urn)
          /\ \/ \E e \in ExpiresIn : ExchangeCode(RowOf(accounts, urn).user_id, urn, e)
             \/ \E p \in Procs : proc[p].arg = urn /\ RefreshSave(p)
          => SecondaryFields(RowOf(accounts', urn))
               = SecondaryFields(RowOf(accounts, urn)) ]_vars

\* the step in which request p, a get_access_token_for_urn on a record
\* within the buffer that has a refresh token, gets no token response
RefreshFails(p) ==
    /\ ValidTokenDecides(p)
    /\ WithinBuffer(DecidedRow(p))
    /\ Truthy(DecidedRow(p).refresh_token)
    /\ proc'[p].pc # "save"

\* C29 as stated: if the provider's refresh call fails, the call fails with
\* an error, save is not invoked and the stored record is exactly as before
\* the call.  (Fails: the read inside the call migrates a legacy row.)
C29_FailedRefreshLeavesRecord ==
    [][ \A p \in Procs :
          RefreshFails(p) =>
              /\ proc'[p].pc = "done"
              /\ proc'[p].status = HTTPError
              /\ proc'[p].token = None
              /\ issued' = issued
              /\ accounts' = accounts ]_vars

\* C29 amended: the same, the stored record being modified by nothing but
\* the migration of a legacy row by the read: expires_at and the plaintexts
\* of the access and the refresh token are as before.
C29_FailedRefreshNoSave ==
    [][ \A p \in Procs :
          RefreshFails(p) =>
              /\ proc'[p].pc = "done"
              /\ proc'[p].status = HTTPError
              /\ proc'[p].token = None
              /\ issued' = issued
              /\ OnlyMigrated(DecidedRow(p))
              /\ \A i \in DOMAIN accounts :
                    PlainOf(accounts'[i].refresh_token)
                      = PlainOf(accounts[i].refresh_token) ]_vars

\* a refresh has failed and the record, with its refresh token, is still
\* there within the buffer
C29_Witness ==
    \E p \in Procs :
        /\ proc[p].op = "get_access_token_for_urn" /\ proc[p].pc = "done"
        /\ proc[p].status = HTTPError
        /\ HasRow(accounts, proc[p].arg)
        /\ Truthy(RowOf(accounts, proc[p].arg).refresh_token)
        /\ WithinBuffer(RowOf(accounts, proc[p].arg))

\* the error codes of a TokenValidationResult that is not valid
ValidatorErrors ==
    {"missing_user_id", "service_unavailable", "not_connected", "missing_token",
     "token_expired", "validation_error"}

\* the step in which a validate_linkedin_token returns
ValidatorReturns(p) ==
    /\ proc[p].pc \in {"idle", "rows"}
    /\ proc'[p].op = "validate_linkedin_token"
    /\ proc'[p].pc = "done"

====
